---------------------------- MODULE Spec2Model ----------------------------
(***************************************************************************)
(* Model of the domain-mask worker (gnosticdev/domain-mask).               *)
(*                                                                         *)
(* Strings are sequences of tokens.  Hostnames are spelled character by    *)
(* character ("t", ".", "o" is the host t.o), so that prefix, suffix and   *)
(* substring tests on hostnames are real tests; scheme prefixes            *)
(* ("https:"), the authority marker ("//") and the URL delimiters are      *)
(* single tokens.  A URL object is a record of its WHATWG components.      *)
(***************************************************************************)
EXTENDS Integers, Sequences, FiniteSets, TLC

VARIABLES
    env,        \* c.env: the bindings ALIAS_DOMAIN and TARGET_DOMAIN
    req,        \* c.req: url, method and headers of the inbound request
    pc,         \* position of the request in the middleware chain
    cvars,      \* c.var: requestURL, targetURL, forwardHeaders
    res,        \* c.res: status, body and headers of the response
    origin,     \* outcome of the upstream fetch
    fetches,    \* number of upstream fetches issued for the request
    hist,       \* pipeline states the request has entered, in order
    rw,         \* inputs and results of convertToMaskedURL
    conc,       \* the contexts of the requests handled concurrently
    heap        \* the URL objects the concurrent requests hold, by identity

vars == <<env, req, pc, cvars, res, origin, fetches, hist, rw, conc, heap>>

pipeVars == <<env, req, pc, cvars, res, origin, fetches, hist>>

-----------------------------------------------------------------------------
(* Bounds *)

\* longest request / origin path, in segments
MaxPathSegs == 1

\* largest number of Set-Cookie values on an origin response
MaxCookies == 2

\* number of requests handled concurrently
MaxRequests == 2

-----------------------------------------------------------------------------
(* Strings *)

Sub(s, a, b) == IF a > b THEN <<>> ELSE SubSeq(s, a, b)

From(s, a) == Sub(s, a, Len(s))

\* index of the first token of s, at or after from, that lies in S; Len(s)+1 if none
FirstIn(s, S, from) ==
    LET I == {i \in from..Len(s) : s[i] \in S}
    IN  IF I = {} THEN Len(s) + 1 ELSE CHOOSE i \in I : \A j \in I : i <= j

\* String.prototype.startsWith
StartsWith(s, p) == Len(p) <= Len(s) /\ Sub(s, 1, Len(p)) = p

\* String.prototype.endsWith
EndsWith(s, p) == Len(p) <= Len(s) /\ Sub(s, Len(s) - Len(p) + 1, Len(s)) = p

\* index of the first occurrence of p in s at or after from; 0 if none
IndexOf(s, p, from) ==
    LET I == {i \in from..(Len(s) - Len(p) + 1) : Sub(s, i, i + Len(p) - 1) = p}
    IN  IF I = {} THEN 0 ELSE CHOOSE i \in I : \A j \in I : i <= j

\* String.prototype.includes
Includes(s, p) == IndexOf(s, p, 1) # 0

\* String.prototype.replaceAll(p, r), p non-empty
RECURSIVE ReplaceAll(_, _, _)
ReplaceAll(s, p, r) ==
    LET i == IndexOf(s, p, 1)
    IN  IF i = 0 THEN s
        ELSE Sub(s, 1, i - 1) \o r \o ReplaceAll(From(s, i + Len(p)), p, r)

-----------------------------------------------------------------------------
(* URL objects: new URL(input), new URL(input, base), URL.toString()       *)

SpecialSchemes == {"https:", "http:", "ftp:"}

HostEnders == {":", "/", "?", "#"}

\* tokens that cannot appear in a host
ForbiddenHostToks == {" ", ",", "//", ";"}

PortToks == {"80", "443", "8787"}

DefaultPort(protocol) ==
    CASE protocol = "https:" -> "443"
      [] protocol = "http:" -> "80"
      [] OTHER -> "21"

NoURL ==
    [ok |-> FALSE, protocol |-> "", hostname |-> <<>>, port |-> "",
     pathname |-> <<>>, search |-> <<>>, hash |-> <<>>]

\* path, query and fragment of the tail of a URL string
TailPath(t) == LET e == FirstIn(t, {"?", "#"}, 1) IN Sub(t, 1, e - 1)

TailSearch(t) ==
    LET q == FirstIn(t, {"?", "#"}, 1)
    IN  IF q <= Len(t) /\ t[q] = "?"
        THEN Sub(t, q, FirstIn(t, {"#"}, q) - 1)
        ELSE <<>>

TailHash(t) == From(t, FirstIn(t, {"#"}, 1))

\* the authority and what follows it: a is the string after "//"
ParseAuthority(protocol, a) ==
    LET hostEnd == FirstIn(a, HostEnders, 1)
        host == Sub(a, 1, hostEnd - 1)
        hasPort == hostEnd <= Len(a) /\ a[hostEnd] = ":"
        portOk == hasPort => (hostEnd + 1 <= Len(a) /\ a[hostEnd + 1] \in PortToks)
        rawPort == IF hasPort /\ portOk THEN a[hostEnd + 1] ELSE ""
        tail == IF hasPort THEN From(a, hostEnd + 2) ELSE From(a, hostEnd)
        path == TailPath(tail)
    IN  IF host = <<>> \/ (\E i \in 1..Len(host) : host[i] \in ForbiddenHostToks) \/ ~portOk
        THEN NoURL
        ELSE [ok |-> TRUE, protocol |-> protocol, hostname |-> host,
              port |-> IF rawPort = DefaultPort(protocol) THEN "" ELSE rawPort,
              pathname |-> IF path = <<>> THEN <<"/">> ELSE path,
              search |-> TailSearch(tail), hash |-> TailHash(tail)]

\* new URL(s): s must be absolute
URLParse(s) ==
    IF Len(s) >= 2 /\ s[1] \in SpecialSchemes /\ s[2] = "//"
    THEN ParseAuthority(s[1], From(s, 3))
    ELSE NoURL

\* directory of a path: everything up to and including its last "/"
DirOf(path) ==
    LET I == {i \in 1..Len(path) : path[i] = "/"}
    IN  IF I = {} THEN <<"/">> ELSE Sub(path, 1, CHOOSE i \in I : \A j \in I : j <= i)

\* new URL(s, base), base a URL object
URLResolve(s, base) ==
    IF URLParse(s).ok THEN URLParse(s)
    ELSE IF Len(s) >= 1 /\ s[1] \in SpecialSchemes \union {"data:"} THEN NoURL
    ELSE IF Len(s) >= 1 /\ s[1] = "//" THEN ParseAuthority(base.protocol, From(s, 2))
    ELSE IF s = <<>> THEN [base EXCEPT !.hash = <<>>]
    ELSE IF s[1] = "/"
         THEN [base EXCEPT !.pathname = TailPath(s), !.search = TailSearch(s),
                           !.hash = TailHash(s)]
    ELSE IF s[1] = "?"
         THEN [base EXCEPT !.search = TailSearch(s), !.hash = TailHash(s)]
    ELSE IF s[1] = "#" THEN [base EXCEPT !.hash = s]
    ELSE [base EXCEPT !.pathname = DirOf(base.pathname) \o TailPath(s),
                      !.search = TailSearch(s), !.hash = TailHash(s)]

\* URL.host
HostOf(u) == IF u.port = "" THEN u.hostname ELSE u.hostname \o <<":", u.port>>

\* URL.toString() / URL.href
toString(u) == <<u.protocol, "//">> \o HostOf(u) \o u.pathname \o u.search \o u.hash

-----------------------------------------------------------------------------
(* Helpers of the middleware module *)

WWW == <<"w", "w", "w", ".">>

\* a.replace(/^www\./, '')
StripWWW(a) == IF StartsWith(a, WWW) THEN From(a, Len(WWW) + 1) ELSE a

\* the comparison as a suffix test
eqHostSuffix(a, b) == EndsWith(StripWWW(a), StripWWW(b))

eqHost(a, b) == StripWWW(a) = StripWWW(b)

\* url.match(/^https?:\/\//)
HasHttpScheme(s) == Len(s) >= 2 /\ s[1] \in {"https:", "http:"} /\ s[2] = "//"

\* A binding is [isString, str]: a string, or an array whose str is its
\* toString() (the elements joined by ",").  NoURL stands for a TypeError.
normailzeUrl(v) ==
    LET url == IF v.isString
               THEN URLParse(IF ~HasHttpScheme(v.str)
                             THEN <<"https:", "//">> \o v.str ELSE v.str)
               ELSE NoURL
        normalized == IF v.isString THEN URLParse(toString(url)) ELSE URLParse(v.str)
    IN  IF v.isString /\ ~url.ok THEN NoURL
        ELSE IF ~normalized.ok THEN NoURL
        ELSE IF v.isString
             THEN [normalized EXCEPT !.hostname = url.hostname, !.port = url.port]
             ELSE [normalized EXCEPT !.hostname = <<"undefined">>]

-----------------------------------------------------------------------------
(* Responses and headers.  An absent header is the empty string.           *)

NoHeaders ==
    [Location |-> <<>>, SetCookie |-> <<>>, CSP |-> <<>>, HSTS |-> <<>>,
     Link |-> <<>>, XRobotsTag |-> <<>>, ContentType |-> <<>>]

NoResponse == [status |-> 0, body |-> <<>>, headers |-> NoHeaders]

NoForwardHeaders ==
    [set |-> FALSE, XForwardedHost |-> <<>>, XForwardedProto |-> <<>>,
     AcceptEncoding |-> <<>>, ContentType |-> <<>>, UserAgent |-> <<>>]

NoVars == [requestURL |-> NoURL, targetURL |-> NoURL, forwardHeaders |-> NoForwardHeaders]

NoOrigin == [threw |-> FALSE, status |-> 0, headers |-> NoHeaders]

TextPlain == <<"text/plain", ";", " ", "charset=UTF-8">>

\* c.text(body, status): a new text/plain response carrying the headers set so far
text(r, body, status) ==
    [status |-> status, body |-> body,
     headers |-> [r.headers EXCEPT !.ContentType = TextPlain]]

\* an error handler that lets the response in hand through
onErrorKeepsResponse(r) == r

\* app.onError
onError(r) == text(r, <<"Woops - something went wrong">>, 500)

Last(h) == h[Len(h)]

-----------------------------------------------------------------------------
(* Inputs: bindings, requests and origin responses *)

HTTPS == <<"https:", "//">>

HTTP == <<"http:", "//">>

\* the target host t.o, its www form, a subdomain, and a host that only ends with it
TargetHost == <<"t", ".", "o">>

WwwTargetHost == WWW \o TargetHost

SubTargetHost == <<"a", ".">> \o TargetHost

NotTargetHost == <<"n">> \o TargetHost

\* the alias host e.c, its www form, the development host, and a foreign host
AliasHost == <<"e", ".", "c">>

WwwAliasHost == WWW \o AliasHost

LocalHost == <<"l">>

OtherHost == <<"u", ".", "c">>

AliasBindings ==
    {[isString |-> TRUE, str |-> AliasHost],
     [isString |-> TRUE, str |-> HTTPS \o AliasHost],
     [isString |-> TRUE, str |-> LocalHost],
     [isString |-> FALSE, str |-> AliasHost \o <<",">> \o WwwAliasHost]}

TargetBindings ==
    {[isString |-> TRUE, str |-> TargetHost],
     [isString |-> TRUE, str |-> HTTPS \o TargetHost],
     [isString |-> TRUE, str |-> HTTPS \o WwwTargetHost]}

RECURSIVE PathOfLen(_)
PathOfLen(k) == IF k = 0 THEN <<>> ELSE <<"/", "p">> \o PathOfLen(k - 1)

Paths == {<<"/">>} \union {PathOfLen(k) : k \in 1..MaxPathSegs}

Searches == {<<>>, <<"?", "q">>}

RequestOrigins ==
    {HTTPS \o AliasHost, HTTPS \o WwwAliasHost, HTTPS \o OtherHost,
     HTTP \o LocalHost \o <<":", "8787">>, HTTP \o AliasHost,
     HTTPS \o AliasHost \o <<":", "8787">>}

RequestURLs == {o \o p \o q : o \in RequestOrigins, p \in Paths, q \in Searches}

RequestContentTypes == {<<>>, <<"text/html">>, <<"application/json">>}

\* the inbound headers: a client may send X-Forwarded-Host itself
RequestHeaders ==
    [ContentType : RequestContentTypes, AcceptEncoding : {<<>>, <<"gzip">>},
     UserAgent : {<<"agent">>}, XForwardedHost : {OtherHost}]

Requests == [url : RequestURLs, method : {"GET", "POST"}, headers : RequestHeaders]

OriginLocations ==
    {<<>>,
     HTTPS \o TargetHost \o <<"/", "y">>,
     HTTPS \o WwwTargetHost \o <<"/", "y", "?", "q", "#", "f">>,
     HTTPS \o SubTargetHost \o <<"/", "y">>,
     HTTPS \o OtherHost \o <<"/", "z">>,
     <<"/", "login">>,
     HTTPS}

OriginCSPs ==
    {<<>>,
     <<"default-src", " ">> \o TargetHost,
     <<"default-src", " ">> \o HTTPS \o TargetHost \o <<" ">> \o OtherHost}

Cookies ==
    {<<"s=1", ";", " ", "Domain=">> \o TargetHost \o <<";", " ", "Path=/">>,
     <<"s=1", ";", " ", "Path=/">>,
     <<"a=b", ";", "domain=">> \o SubTargetHost,
     <<"d=2", ";", " ", "Domain=">> \o WwwTargetHost \o <<";", " ", "Domain=">> \o OtherHost}

CookieLists == UNION {[1..n -> Cookies] : n \in 0..MaxCookies}

OriginHeaders ==
    {[NoHeaders EXCEPT !.Location = l, !.CSP = p, !.ContentType = <<"text/html">>] :
        l \in OriginLocations, p \in OriginCSPs}
    \union
    {[NoHeaders EXCEPT !.SetCookie = k, !.HSTS = <<"max-age=31536000">>,
                       !.ContentType = <<"application/json">>] : k \in CookieLists}

OriginResponses ==
    {[threw |-> FALSE, status |-> 200, headers |-> h] : h \in OriginHeaders}
    \union
    {[threw |-> FALSE, status |-> 302,
      headers |-> [NoHeaders EXCEPT !.Location = HTTPS \o TargetHost \o <<"/", "y">>]],
     [threw |-> FALSE, status |-> 404, headers |-> NoHeaders],
     [threw |-> FALSE, status |-> 204, headers |-> NoHeaders],
     [threw |-> TRUE, status |-> 0, headers |-> NoHeaders]}

-----------------------------------------------------------------------------
(* Pure parts of postMiddleware and headersMiddleware *)

\* the redirect rewrite without the fragment of the resolved URL
RewriteLocationNoFragment(loc, aliasHostname) ==
    IF loc = <<>> THEN loc
    ELSE LET base == URLParse(HTTPS \o aliasHostname)
             targetLoc == IF base.ok THEN URLResolve(loc, base) ELSE NoURL
         IN  IF targetLoc.ok /\ eqHost(targetLoc.hostname, aliasHostname)
             THEN toString([targetLoc EXCEPT !.hostname = aliasHostname, !.hash = <<>>])
             ELSE loc

\* step 1 of postMiddleware: the Location header after the redirect rewrite
RewriteLocation(loc, aliasHostname) ==
    IF loc = <<>> THEN loc
    ELSE LET base == URLParse(HTTPS \o aliasHostname)
             targetLoc == IF base.ok THEN URLResolve(loc, base) ELSE NoURL
         IN  IF targetLoc.ok /\ eqHost(targetLoc.hostname, aliasHostname)
             THEN toString([targetLoc EXCEPT !.hostname = aliasHostname])
             ELSE loc

DomainToks == {"Domain=", "domain="}

\* first index at or after from whose token is not white space
SkipSpaces(s, from) ==
    LET I == {i \in from..Len(s) : s[i] # " "}
    IN  IF I = {} THEN Len(s) + 1 ELSE CHOOSE i \in I : \A j \in I : i <= j

\* does /;\s*Domain=[^;]+/i match at index i of s
DomainMatchAt(s, i) ==
    /\ s[i] = ";"
    /\ LET d == SkipSpaces(s, i + 1)
       IN  d + 1 <= Len(s) /\ s[d] \in DomainToks /\ s[d + 1] # ";"

\* the replacement with a pattern that runs to the end of the cookie
ReplaceCookieDomainToEnd(cki, domain) ==
    LET I == {i \in 1..Len(cki) : DomainMatchAt(cki, i)}
    IN  IF I = {} THEN cki
        ELSE LET i == CHOOSE k \in I : \A j \in I : k <= j
             IN  Sub(cki, 1, i - 1) \o <<";", " ", "Domain=">> \o domain

\* cki.replace(/;\s*Domain=[^;]+/i, `; Domain=${domain}`): first match only
ReplaceCookieDomain(cki, domain) ==
    LET I == {i \in 1..Len(cki) : DomainMatchAt(cki, i)}
    IN  IF I = {} THEN cki
        ELSE LET i == CHOOSE k \in I : \A j \in I : k <= j
                 d == SkipSpaces(cki, i + 1)
                 e == FirstIn(cki, {";"}, d + 1)
             IN  Sub(cki, 1, i - 1) \o <<";", " ", "Domain=">> \o domain \o From(cki, e)

\* the cookies appended in reverse
RewriteSetCookieReversed(cookies, domain) ==
    IF Len(cookies) > 0
    THEN [i \in 1..Len(cookies) |->
             ReplaceCookieDomain(cookies[Len(cookies) + 1 - i], domain)]
    ELSE cookies

\* step 2 of postMiddleware: getSetCookie() is empty exactly when
\* get('Set-Cookie') is null, so the else branch changes nothing
RewriteSetCookie(cookies, domain) ==
    IF Len(cookies) > 0
    THEN [i \in 1..Len(cookies) |-> ReplaceCookieDomain(cookies[i], domain)]
    ELSE cookies

\* the Content-Security-Policy header with the alias host for the target domain
RewriteCSPToAlias(csp, domain) ==
    IF Includes(csp, domain) THEN ReplaceAll(csp, domain, AliasHost) ELSE csp

\* step 3 of postMiddleware: the Content-Security-Policy header
RewriteCSP(csp, domain) ==
    IF Includes(csp, domain) THEN ReplaceAll(csp, domain, domain) ELSE csp

\* postMiddleware without its last step
PostHeadersKeepsHSTS(h, targetURL, targetDomain) ==
    [h EXCEPT !.Location = RewriteLocation(h.Location, targetURL.hostname),
              !.SetCookie = RewriteSetCookie(h.SetCookie, targetDomain),
              !.CSP = RewriteCSP(h.CSP, targetDomain)]

\* the response headers after postMiddleware
PostHeaders(h, targetURL, targetDomain) ==
    [h EXCEPT !.Location = RewriteLocation(h.Location, targetURL.hostname),
              !.SetCookie = RewriteSetCookie(h.SetCookie, targetDomain),
              !.CSP = RewriteCSP(h.CSP, targetDomain),
              !.HSTS = <<>>]

\* forwardHeaders with X-Forwarded-Host taken from the URL's hostname
ForwardHeadersHostname(r) ==
    [set |-> TRUE, XForwardedHost |-> URLParse(r.url).hostname,
     XForwardedProto |-> <<"https">>, AcceptEncoding |-> <<>>,
     ContentType |-> r.headers.ContentType, UserAgent |-> r.headers.UserAgent]

\* forwardHeaders of headersMiddleware: a copy of the inbound headers with
\* two headers set and one deleted
ForwardHeaders(r) ==
    [set |-> TRUE, XForwardedHost |-> HostOf(URLParse(r.url)),
     XForwardedProto |-> <<"https">>, AcceptEncoding |-> <<>>,
     ContentType |-> r.headers.ContentType, UserAgent |-> r.headers.UserAgent]

\* the canonical Link header built on the request URL
CanonicalLinkOnRequestURL(targetDomain, r) ==
    LET maskedURL == URLParse(targetDomain)
    IN  IF ~maskedURL.ok THEN <<>>
        ELSE <<"<">> \o toString(URLParse(r.url)) \o <<">", ";", " ", "rel=\"canonical\"">>

\* the canonical Link header of headersMiddleware; <<>> stands for a TypeError
CanonicalLink(targetDomain, r) ==
    LET maskedURL == URLParse(targetDomain)
        reqUrl == URLParse(r.url)
    IN  IF ~maskedURL.ok THEN <<>>
        ELSE <<"<">>
             \o toString([maskedURL EXCEPT !.pathname = reqUrl.pathname,
                                           !.search = reqUrl.search])
             \o <<">", ";", " ", "rel=\"canonical\"">>

-----------------------------------------------------------------------------
(* The request pipeline.  The worker registers preMiddleware,              *)
(* headersMiddleware and postMiddleware, in that order, in front of the    *)
(* proxy handler; an error thrown by a middleware is answered by onError.  *)

NoRequest ==
    [url |-> <<>>, method |-> "GET",
     headers |-> [ContentType |-> <<>>, AcceptEncoding |-> <<>>]]

IdleRewrite ==
    [step |-> "idle", form |-> <<>>, originalUrl |-> <<>>, maskedURL |-> NoURL,
     requestURL |-> NoURL, once |-> <<>>, twice |-> <<>>]

Init ==
    /\ env \in [ALIAS_DOMAIN : AliasBindings, TARGET_DOMAIN : TargetBindings]
    /\ req \in Requests
    /\ pc = "pre"
    /\ cvars = NoVars
    /\ res = NoResponse
    /\ origin = NoOrigin
    /\ fetches = 0
    /\ hist = <<"Received">>
    /\ rw = IdleRewrite
    /\ conc = <<>>
    /\ heap = <<>>

\* the host gate compares www.alias with alias as equal
HostAllowedIgnoringWww(reqUrl, aliasDomain) == eqHost(reqUrl.hostname, aliasDomain.hostname)

\* the host gate of preMiddleware
HostAllowed(reqUrl, aliasDomain) == reqUrl.hostname = aliasDomain.hostname

\* the target URL with the request's pathname only
TargetForPathOnly(targetURL, reqUrl) == [targetURL EXCEPT !.pathname = reqUrl.pathname]

\* the target URL of a request: the target origin with the request's
\* pathname and search
TargetFor(targetURL, reqUrl) ==
    [targetURL EXCEPT !.pathname = reqUrl.pathname, !.search = reqUrl.search]

\* preMiddleware with the context variables set ahead of the host gate
preMiddlewareSetsFirst(e, r, rs, v) ==
    LET reqUrl == URLParse(r.url)
        aliasDomain == normailzeUrl(e.ALIAS_DOMAIN)
        targetURL == normailzeUrl(e.TARGET_DOMAIN)
        set == [v EXCEPT !.requestURL = reqUrl,
                         !.targetURL = TargetFor(targetURL, reqUrl)]
    IN  IF ~reqUrl.ok \/ ~aliasDomain.ok \/ ~targetURL.ok
        THEN [res |-> onError(rs), cvars |-> v, pc |-> "done", state |-> "InternalError"]
        ELSE IF ~HostAllowed(reqUrl, aliasDomain)
        THEN [res |-> text(rs, <<"Not allowed">>, 403), cvars |-> set, pc |-> "done",
              state |-> "Rejected"]
        ELSE [res |-> rs, cvars |-> set, pc |-> "headers", state |-> "Validated"]

\* preMiddleware up to its await next(): the response, the context
\* variables, the next position and the pipeline state it leaves
preMiddleware(e, r, rs, v) ==
    LET reqUrl == URLParse(r.url)
        aliasDomain == normailzeUrl(e.ALIAS_DOMAIN)
        targetURL == normailzeUrl(e.TARGET_DOMAIN)
    IN  IF ~reqUrl.ok \/ ~aliasDomain.ok \/ ~targetURL.ok
        THEN [res |-> onError(rs), cvars |-> v, pc |-> "done", state |-> "InternalError"]
        ELSE IF ~HostAllowed(reqUrl, aliasDomain)
        THEN [res |-> text(rs, <<"Not allowed">>, 403), cvars |-> v, pc |-> "done",
              state |-> "Rejected"]
        ELSE [res |-> rs,
              cvars |-> [v EXCEPT !.requestURL = reqUrl,
                                  !.targetURL = TargetFor(targetURL, reqUrl)],
              pc |-> "headers", state |-> "Validated"]

PreMiddleware ==
    /\ pc = "pre"
    /\ LET out == preMiddleware(env, req, res, cvars)
       IN  /\ res' = out.res
           /\ cvars' = out.cvars
           /\ pc' = out.pc
           /\ hist' = Append(hist, out.state)
    /\ UNCHANGED <<env, req, origin, fetches, rw, conc, heap>>

\* headersMiddleware that sets no header ahead of next()
NoRobotsTag(h) == h

\* c.header('X-Robots-Tag', ...) ahead of next()
WithRobotsTag(h) ==
    [h EXCEPT !.XRobotsTag = <<"noindex, nofollow, noarchive, nosnippet">>]

\* headersMiddleware up to its await next(); postMiddleware awaits next() at once
HeadersMiddlewareBefore ==
    /\ pc = "headers"
    /\ res' = [res EXCEPT !.headers = WithRobotsTag(res.headers)]
    /\ pc' = "fetch"
    /\ UNCHANGED <<env, req, cvars, origin, fetches, hist, rw, conc, heap>>

IsOk(status) == status >= 200 /\ status <= 299

\* the proxy handler: one upstream fetch of targetURL; a rejected fetch or a
\* response that is not ok is answered with 502
Fetch ==
    /\ pc = "fetch"
    /\ \E o \in OriginResponses :
          /\ origin' = o
          /\ fetches' = fetches + 1
          /\ IF o.threw \/ ~IsOk(o.status)
             THEN /\ res' = text(res, <<"Failed to process request", ":", " ", "error">>, 502)
                  /\ pc' = "postAfter"
                  /\ hist' = Append(hist, "UpstreamFailed")
             ELSE /\ res' = res
                  /\ pc' = "transform"
                  /\ hist' = Append(hist, "Fetched")
    /\ UNCHANGED <<env, req, cvars, rw, conc, heap>>

\* the proxy handler: the body transform selected by the content type, and
\* the response with the origin's status and headers
TransformBody ==
    /\ pc = "transform"
    /\ res' = [status |-> origin.status,
               body |-> <<"transformed">> \o origin.headers.ContentType,
               headers |-> [origin.headers EXCEPT !.XRobotsTag = res.headers.XRobotsTag]]
    /\ pc' = "postAfter"
    /\ hist' = Append(hist, "BodyTransformed")
    /\ UNCHANGED <<env, req, cvars, origin, fetches, rw, conc, heap>>

\* postMiddleware after its await next()
PostMiddlewareAfter ==
    /\ pc = "postAfter"
    /\ res' = [res EXCEPT !.headers =
                  PostHeaders(res.headers, cvars.targetURL, env.TARGET_DOMAIN.str)]
    /\ pc' = "headersAfter"
    /\ UNCHANGED <<env, req, cvars, origin, fetches, hist, rw, conc, heap>>

\* does headersMiddleware throw after its await next()
LinkThrows(e, r) ==
    /\ Includes(r.headers.ContentType, <<"text/html">>)
    /\ CanonicalLink(e.TARGET_DOMAIN.str, r) = <<>>

\* the response headersMiddleware leaves after its await next()
WithCanonicalLink(e, r, rs) ==
    IF LinkThrows(e, r) THEN onError(rs)
    ELSE IF Includes(r.headers.ContentType, <<"text/html">>)
    THEN [rs EXCEPT !.headers.Link = CanonicalLink(e.TARGET_DOMAIN.str, r)]
    ELSE rs

\* headersMiddleware after its await next()
HeadersMiddlewareAfter ==
    /\ pc = "headersAfter"
    /\ cvars' = [cvars EXCEPT !.forwardHeaders = ForwardHeaders(req)]
    /\ res' = WithCanonicalLink(env, req, res)
    /\ hist' = IF LinkThrows(env, req) THEN Append(hist, "InternalError")
               ELSE IF Last(hist) = "BodyTransformed"
               THEN Append(hist, "HeadersRewritten") ELSE hist
    /\ pc' = "emit"
    /\ UNCHANGED <<env, req, origin, fetches, rw, conc, heap>>

\* the response leaves the worker
Emit ==
    /\ pc = "emit"
    /\ pc' = "done"
    /\ hist' = IF Last(hist) = "HeadersRewritten" THEN Append(hist, "Emitted") ELSE hist
    /\ UNCHANGED <<env, req, cvars, res, origin, fetches, rw, conc, heap>>

Next ==
    \/ PreMiddleware
    \/ HeadersMiddlewareBefore
    \/ Fetch
    \/ TransformBody
    \/ PostMiddlewareAfter
    \/ HeadersMiddlewareAfter
    \/ Emit

Spec == Init /\ [][Next]_vars

-----------------------------------------------------------------------------
(* convertToMaskedURL (src/transform-url.ts), called rewrite in the design *)

\* The forms a URL string takes; Build spells a form out as a string.
Schemes == {"https:", "http:", "ftp:"}

FormHosts ==
    {TargetHost, WwwTargetHost, SubTargetHost, NotTargetHost, AliasHost, OtherHost}

FormPaths == {<<>>} \union Paths

FormHashes == {<<>>, <<"#", "f">>}

UrlForms ==
    [kind : {"absolute"}, scheme : Schemes, host : FormHosts, port : {"", "8787"},
     path : FormPaths, search : Searches, hash : FormHashes]
    \union
    [kind : {"protocol-relative"}, scheme : {""}, host : FormHosts, port : {""},
     path : FormPaths, search : Searches, hash : FormHashes]
    \union
    [kind : {"relative"}, scheme : {""}, host : {<<>>}, port : {""},
     path : Paths, search : Searches, hash : FormHashes]
    \union
    [kind : {"data", "malformed", "no-host"}, scheme : {""}, host : {<<>>}, port : {""},
     path : {<<>>}, search : {<<>>}, hash : {<<>>}]

Authority(f) == IF f.port = "" THEN f.host ELSE f.host \o <<":", f.port>>

Build(f) ==
    CASE f.kind = "absolute" ->
            <<f.scheme, "//">> \o Authority(f) \o f.path \o f.search \o f.hash
      [] f.kind = "protocol-relative" ->
            <<"//">> \o Authority(f) \o f.path \o f.search \o f.hash
      [] f.kind = "relative" -> f.path \o f.search \o f.hash
      [] f.kind = "data" -> <<"data:", "image/png", ";", "base64", ",", "iVBORw0KGgo=">>
      [] f.kind = "malformed" -> <<"not-a-valid-url">>
      [] OTHER -> HTTPS

MaskedURLs == {URLParse(HTTPS \o TargetHost), URLParse(HTTPS \o WwwTargetHost)}

\* the alias in production, in development, and an alias under the target's own domain
RewriteRequestURLs ==
    {URLParse(HTTPS \o AliasHost \o <<"/", "p", "?", "q">>),
     URLParse(HTTP \o LocalHost \o <<":", "8787">>),
     URLParse(HTTPS \o <<"m", ".">> \o TargetHost)}

\* a string that is neither absolute, protocol-relative nor a /path
IsMalformed(s) == s = <<>> \/ s[1] \notin Schemes \union {"//", "/"}

\* the suffix test without the dot boundary
EndsWithDomain(hostname, domain) == EndsWith(hostname, domain) /\ hostname # domain

\* hostname is a subdomain of domain: it ends with "." followed by domain
IsSubdomain(hostname, domain) == EndsWith(hostname, <<".">> \o domain)

\* every http(s) URL is taken to be under the masked host
OnAnyHost(url, maskedURL) == TRUE

\* the resolved URL is on the masked host or on one of its subdomains
OnMaskedHost(url, maskedURL) ==
    url.hostname = maskedURL.hostname \/ IsSubdomain(url.hostname, maskedURL.hostname)

\* the request host without the subdomain label
AliasHostnameFlat(url, maskedURL, requestURL) == requestURL.hostname

\* the request host under the subdomain label the URL has on the masked host
AliasHostname(url, maskedURL, requestURL) ==
    Sub(url.hostname, 1, Len(url.hostname) - Len(maskedURL.hostname))
    \o requestURL.hostname

\* the rebuilt URL keeps its own port
WithHostnameOnly(url, hostname, requestURL) ==
    toString([url EXCEPT !.protocol = requestURL.protocol, !.hostname = hostname])

\* the URL rebuilt on the request's scheme and port and the given hostname
WithAuthority(url, hostname, requestURL) ==
    toString([url EXCEPT !.protocol = requestURL.protocol, !.hostname = hostname,
                         !.port = requestURL.port])

convertToMaskedURL(originalUrl, maskedURL, requestURL) ==
    IF StartsWith(originalUrl, <<"data:">>) THEN originalUrl
    ELSE IF IsMalformed(originalUrl) THEN originalUrl
    ELSE LET url == URLResolve(originalUrl, maskedURL)
         IN  IF ~url.ok THEN originalUrl
             ELSE IF url.protocol \notin {"http:", "https:"} THEN originalUrl
             ELSE IF ~OnMaskedHost(url, maskedURL) THEN originalUrl
             ELSE WithAuthority(url, AliasHostname(url, maskedURL, requestURL),
                                requestURL)

InitRewrite ==
    /\ \E f \in UrlForms, m \in MaskedURLs, r \in RewriteRequestURLs :
          rw = [step |-> "input", form |-> f, originalUrl |-> Build(f),
                maskedURL |-> m, requestURL |-> r, once |-> <<>>, twice |-> <<>>]
    /\ env = [ALIAS_DOMAIN |-> [isString |-> TRUE, str |-> AliasHost],
              TARGET_DOMAIN |-> [isString |-> TRUE, str |-> TargetHost]]
    /\ req = NoRequest
    /\ pc = "idle"
    /\ cvars = NoVars
    /\ res = NoResponse
    /\ origin = NoOrigin
    /\ fetches = 0
    /\ hist = <<>>
    /\ conc = <<>>
    /\ heap = <<>>

\* rewrite applied to the input
RewriteOnce ==
    /\ rw.step = "input"
    /\ rw' = [rw EXCEPT !.step = "once",
                        !.once = convertToMaskedURL(rw.originalUrl, rw.maskedURL,
                                                    rw.requestURL)]
    /\ UNCHANGED <<pipeVars, conc, heap>>

\* rewrite applied to its own result
RewriteTwice ==
    /\ rw.step = "once"
    /\ rw' = [rw EXCEPT !.step = "twice",
                        !.twice = convertToMaskedURL(rw.once, rw.maskedURL,
                                                     rw.requestURL)]
    /\ UNCHANGED <<pipeVars, conc, heap>>

NextRewrite == RewriteOnce \/ RewriteTwice

SpecRewrite == InitRewrite /\ [][NextRewrite]_vars

-----------------------------------------------------------------------------
(* Concurrent requests.  The worker handles requests in one isolate: the   *)
(* bindings are shared, every request has a context of its own, and the    *)
(* steps of different requests interleave at every await.  A context holds *)
(* its URL objects by identity.                                            *)

RequestIds == 1..MaxRequests

\* the identity of an object in module scope, which outlives a request
ModuleRef == 0

NoRef == -1

Refs == {ModuleRef} \union RequestIds

\* one URL object in module scope, used by every call
ModuleURLRef(r) == ModuleRef

\* new URL(...) in normailzeUrl: an object of the call's own
NewURLRef(r) == r

ConcBindings ==
    [ALIAS_DOMAIN : {[isString |-> TRUE, str |-> AliasHost]},
     TARGET_DOMAIN : {[isString |-> TRUE, str |-> TargetHost],
                      [isString |-> TRUE, str |-> HTTPS \o TargetHost]}]

ConcRequests ==
    {[url |-> u, method |-> "GET",
      headers |-> [ContentType |-> <<"text/html">>, AcceptEncoding |-> <<"gzip">>,
                   UserAgent |-> <<"agent">>, XForwardedHost |-> OtherHost]] :
        u \in {HTTPS \o AliasHost \o <<"/">>,
               HTTPS \o AliasHost \o <<":", "8787", "/", "p", "?", "q">>,
               HTTPS \o OtherHost \o <<"/", "p">>}}

ConcOrigins ==
    {[threw |-> FALSE, status |-> 200,
      headers |-> [NoHeaders EXCEPT
                      !.Location = HTTPS \o WwwTargetHost \o <<"/", "y">>,
                      !.SetCookie = <<<<"s=1", ";", " ", "Domain=">> \o TargetHost>>,
                      !.HSTS = <<"max-age=31536000">>,
                      !.ContentType = <<"text/html">>]],
     [threw |-> TRUE, status |-> 0, headers |-> NoHeaders]}

NoContext(q) ==
    [req |-> q, pc |-> "pre", requestURL |-> NoURL, targetURL |-> NoRef,
     forwardHeaders |-> NoForwardHeaders, res |-> NoResponse, origin |-> NoOrigin,
     fetched |-> <<>>, inFlight |-> {}]

InitConc ==
    /\ env \in ConcBindings
    /\ conc \in [RequestIds -> {NoContext(q) : q \in ConcRequests}]
    /\ heap = [ref \in Refs |-> NoURL]
    /\ req = NoRequest
    /\ pc = "idle"
    /\ cvars = NoVars
    /\ res = NoResponse
    /\ origin = NoOrigin
    /\ fetches = 0
    /\ hist = <<>>
    /\ rw = IdleRewrite

\* preMiddleware of request r up to its await next(); targetURL is the
\* object normailzeUrl returned, with its pathname and search assigned
ConcPreMiddleware(r) ==
    /\ conc[r].pc = "pre"
    /\ LET st == conc[r]
           out == preMiddleware(env, st.req, st.res, NoVars)
           ref == NewURLRef(r)
       IN  IF out.pc = "headers"
           THEN /\ heap' = [heap EXCEPT ![ref] = out.cvars.targetURL]
                /\ conc' = [conc EXCEPT ![r] =
                               [st EXCEPT !.pc = "headers",
                                          !.requestURL = out.cvars.requestURL,
                                          !.targetURL = ref]]
           ELSE /\ heap' = heap
                /\ conc' = [conc EXCEPT ![r] = [st EXCEPT !.pc = "done", !.res = out.res]]
    /\ UNCHANGED <<pipeVars, rw>>

\* headersMiddleware of request r up to its await next()
ConcHeadersBefore(r) ==
    /\ conc[r].pc = "headers"
    /\ conc' = [conc EXCEPT ![r].pc = "fetch",
                            ![r].res.headers = WithRobotsTag(conc[r].res.headers)]
    /\ UNCHANGED <<pipeVars, rw, heap>>

\* the proxy handler of request r: it fetches the URL its targetURL object
\* holds at that time, during the handling of the requests in inFlight
ConcHandler(r) ==
    /\ conc[r].pc = "fetch"
    /\ \E o \in ConcOrigins :
          LET st == conc[r]
          IN  conc' = [conc EXCEPT ![r] =
                  [st EXCEPT
                      !.pc = "postAfter",
                      !.origin = o,
                      !.fetched = toString(heap[st.targetURL]),
                      !.inFlight = {q \in RequestIds \ {r} :
                                        conc[q].pc \notin {"pre", "done"}},
                      !.res = IF o.threw \/ ~IsOk(o.status)
                              THEN text(st.res, <<"Failed to process request", ":",
                                                  " ", "error">>, 502)
                              ELSE [status |-> o.status,
                                    body |-> <<"transformed">> \o o.headers.ContentType,
                                    headers |-> [o.headers EXCEPT !.XRobotsTag =
                                                    st.res.headers.XRobotsTag]]]]
    /\ UNCHANGED <<pipeVars, rw, heap>>

\* postMiddleware of request r after its await next()
ConcPostAfter(r) ==
    /\ conc[r].pc = "postAfter"
    /\ conc' = [conc EXCEPT ![r].pc = "headersAfter",
                            ![r].res.headers =
                                PostHeaders(conc[r].res.headers, heap[conc[r].targetURL],
                                            env.TARGET_DOMAIN.str)]
    /\ UNCHANGED <<pipeVars, rw, heap>>

\* headersMiddleware of request r after its await next()
ConcHeadersAfter(r) ==
    /\ conc[r].pc = "headersAfter"
    /\ conc' = [conc EXCEPT ![r].pc = "done",
                            ![r].forwardHeaders = ForwardHeaders(conc[r].req),
                            ![r].res = WithCanonicalLink(env, conc[r].req, conc[r].res)]
    /\ UNCHANGED <<pipeVars, rw, heap>>

NextConc ==
    \E r \in RequestIds :
        \/ ConcPreMiddleware(r)
        \/ ConcHeadersBefore(r)
        \/ ConcHandler(r)
        \/ ConcPostAfter(r)
        \/ ConcHeadersAfter(r)

SpecConc == InitConc /\ [][NextConc]_vars

-----------------------------------------------------------------------------
(* Properties of the request pipeline *)

\* a binding string without its scheme
WithoutScheme(str) == IF HasHttpScheme(str) THEN From(str, 3) ELSE str

\* the request passed the host gate
Passed == Len(hist) >= 2 /\ hist[2] = "Validated"

\* the hostname of the request URL, read off the request origin it was built from
RequestHostname ==
    CHOOSE h \in {AliasHost, WwwAliasHost, OtherHost, LocalHost} :
        \E sch \in {HTTPS, HTTP} : StartsWith(req.url, sch \o h)
                                   /\ (Len(req.url) = 2 + Len(h)
                                       \/ req.url[3 + Len(h)] \in HostEnders)

\* C1: a request whose URL hostname is not the configured alias hostname is
\* answered with status 403 and the body 'Not allowed', whatever its path,
\* query and method.
C1_RejectsForeignHost ==
    (/\ pc # "pre"
     /\ env.ALIAS_DOMAIN.isString
     /\ RequestHostname # WithoutScheme(env.ALIAS_DOMAIN.str))
        => (res.status = 403 /\ res.body = <<"Not allowed">>)

C1_Witness ==
    /\ pc = "done"
    /\ res.status = 403
    /\ req.method = "POST"
    /\ RequestHostname = WwwAliasHost
    /\ Includes(req.url, <<"?", "q">>)

\* C2: once the host gate has rejected a request, no upstream fetch has been
\* issued, requestURL and targetURL are unset, and the chain has stopped.
C2_RejectedNeverReachesHandler ==
    (\E i \in 1..Len(hist) : hist[i] = "Rejected")
        => (/\ fetches = 0
            /\ ~cvars.requestURL.ok
            /\ ~cvars.targetURL.ok
            /\ ~cvars.forwardHeaders.set
            /\ origin = NoOrigin
            /\ pc = "done")

C2_Witness == pc = "done" /\ Last(hist) = "Rejected" /\ res.status = 403 /\ fetches = 0

\* the upstream fetch of the request threw or came back with a non-2xx status
UpstreamFailure == fetches > 0 /\ (origin.threw \/ ~IsOk(origin.status))

\* C3: for a request that passed the host gate, an upstream fetch that throws
\* or returns a non-2xx status gives a response with status 502 whose body
\* contains 'Failed to process request'.
C3_UpstreamFailureGives502 ==
    (pc = "done" /\ Passed /\ UpstreamFailure)
        => (res.status = 502 /\ Includes(res.body, <<"Failed to process request">>))

\* the transitions of the request state machine
Transitions ==
    {<<"Received", "Validated">>, <<"Received", "Rejected">>,
     <<"Validated", "Fetched">>, <<"Validated", "UpstreamFailed">>,
     <<"Fetched", "BodyTransformed">>, <<"BodyTransformed", "HeadersRewritten">>,
     <<"HeadersRewritten", "Emitted">>}
    \union
    {<<st, "InternalError">> :
        st \in {"Received", "Validated", "Fetched", "BodyTransformed", "HeadersRewritten"}}

Terminal == {"Emitted", "Rejected", "UpstreamFailed", "InternalError"}

\* C4: a request moves through Validated, Fetched, BodyTransformed,
\* HeadersRewritten, Emitted in that order, visits no state twice, ends in one
\* of Emitted, Rejected, UpstreamFailed, InternalError, never leaves a
\* terminal state, and is fetched upstream at most once.
C4_StateMachine ==
    /\ \A i \in 1..(Len(hist) - 1) : <<hist[i], hist[i + 1]>> \in Transitions
    /\ \A i, j \in 1..Len(hist) : hist[i] = hist[j] => i = j
    /\ pc = "done" => Last(hist) \in Terminal
    /\ fetches <= 1

-----------------------------------------------------------------------------
(* Properties of convertToMaskedURL, stated on the form of the input *)

\* an http(s) URL string that names its host
NamesHost(f) ==
    \/ f.kind = "absolute" /\ f.scheme \in {"https:", "http:"}
    \/ f.kind = "protocol-relative"

\* the path of a URL whose string has the path p
NormPath(p) == IF p = <<>> THEN <<"/">> ELSE p

\* the label prefix of a host under domain, dot included ("a." for a.t.o under t.o)
LabelOf(host, domain) == Sub(host, 1, Len(host) - Len(domain))

\* the subdomain labels in use, dot included
Labels == {<<"a", ".">>, <<"m", ".">>, WWW}

\* host is label.domain for one of the labels
LabelledHost(host, domain) == \E l \in Labels : host = l \o domain

\* is the form an URL under the masked domain
UnderMasked(f, m) ==
    \/ f.kind = "relative"
    \/ NamesHost(f) /\ (f.host = m.hostname \/ LabelledHost(f.host, m.hostname))

\* C5: an absolute http(s) URL on the masked host is returned with the
\* scheme, host and port of requestURL and its own path, query and fragment.
C5_TargetHostTakesRequestAuthority ==
    (/\ rw.step \in {"once", "twice"}
     /\ rw.form.kind = "absolute"
     /\ rw.form.scheme \in {"https:", "http:"}
     /\ rw.form.host = rw.maskedURL.hostname)
        => rw.once = <<rw.requestURL.protocol, "//">> \o HostOf(rw.requestURL)
                     \o NormPath(rw.form.path) \o rw.form.search \o rw.form.hash

C5_Witness ==
    /\ rw.step = "once"
    /\ rw.form.kind = "absolute"
    /\ rw.form.host = rw.maskedURL.hostname
    /\ rw.form.search # <<>>
    /\ rw.form.hash # <<>>
    /\ rw.requestURL.port = "8787"
    /\ StartsWith(rw.once, HTTP \o LocalHost \o <<":", "8787">>)

\* C6: an input that does not reference the masked domain (a data: URI, a
\* non-http(s) scheme, another host, a host that only ends with the masked
\* host's string, a malformed string) is returned unchanged.
C6_UnrelatedUnchanged ==
    (rw.step \in {"once", "twice"} /\ ~UnderMasked(rw.form, rw.maskedURL))
        => rw.once = rw.originalUrl

C6_Witness ==
    /\ rw.step = "once"
    /\ rw.form.kind = "absolute"
    /\ rw.form.scheme = "https:"
    /\ rw.form.host = NotTargetHost
    /\ rw.maskedURL.hostname = TargetHost
    /\ rw.once = rw.originalUrl

\* C7: an http(s) URL on a subdomain of the masked host is returned on the
\* same subdomain label of the request host, with its path, query and
\* fragment, whatever the requestURL.
C7_SubdomainKeepsLabel ==
    (/\ rw.step \in {"once", "twice"}
     /\ NamesHost(rw.form)
     /\ LabelledHost(rw.form.host, rw.maskedURL.hostname))
        => LET u == URLParse(rw.once)
           IN  /\ u.ok
               /\ u.hostname = LabelOf(rw.form.host, rw.maskedURL.hostname)
                               \o rw.requestURL.hostname
               /\ u.pathname = NormPath(rw.form.path)
               /\ u.search = rw.form.search
               /\ u.hash = rw.form.hash

C7_Witness ==
    /\ rw.step = "once"
    /\ rw.form.host = SubTargetHost
    /\ rw.maskedURL.hostname = TargetHost
    /\ rw.requestURL.hostname = AliasHost
    /\ rw.form.hash # <<>>
    /\ URLParse(rw.once).hostname = <<"a", ".">> \o AliasHost

-----------------------------------------------------------------------------
(* Properties of the response headers *)

\* the hostname of the TARGET_DOMAIN binding
TargetHostname == WithoutScheme(env.TARGET_DOMAIN.str)

\* the origin answered 2xx with a Location on the target host
LocationOnTarget ==
    /\ fetches > 0
    /\ IsOk(origin.status)
    /\ StartsWith(origin.headers.Location, HTTPS \o TargetHostname \o <<"/">>)

\* C9: a Location header on the target host leaves postMiddleware with the
\* hostname of the request (alias) host and its path, query and fragment.
C9_LocationOnAliasHost ==
    (pc \in {"headersAfter", "emit", "done"} /\ LocationOnTarget /\ res.status = origin.status)
        => LET before == URLParse(origin.headers.Location)
               after == URLParse(res.headers.Location)
           IN  /\ after.ok
               /\ after.hostname = cvars.requestURL.hostname
               /\ after.pathname = before.pathname
               /\ after.search = before.search
               /\ after.hash = before.hash

\* a cookie without its Domain attribute
WithoutDomain(cki) ==
    LET I == {i \in 1..Len(cki) : DomainMatchAt(cki, i)}
    IN  IF I = {} THEN cki
        ELSE LET i == CHOOSE k \in I : \A j \in I : k <= j
             IN  Sub(cki, 1, i - 1) \o From(cki, FirstIn(cki, {";"}, i + 1))

\* C10: no header of the outgoing response contains the target hostname,
\* the Domain attribute of Set-Cookie excepted.
C10_NoTargetHostInHeaders ==
    pc = "done"
        => LET h == res.headers
           IN  /\ \A v \in {h.Location, h.Link, h.CSP, h.HSTS, h.XRobotsTag, h.ContentType} :
                     ~Includes(v, TargetHostname)
               /\ \A i \in 1..Len(h.SetCookie) :
                     ~Includes(WithoutDomain(h.SetCookie[i]), TargetHostname)


-----------------------------------------------------------------------------
(* Properties of the response and request headers *)

\* C11: no response the worker returns carries Strict-Transport-Security,
\* on the happy path and on the 403, 502 and 500 exits alike, whatever the
\* origin's response carried.
C11_NoHSTS == pc = "done" => res.headers.HSTS = <<>>

C11_Witness ==
    /\ pc = "done"
    /\ origin.headers.HSTS # <<>>
    /\ res.status = 200
    /\ res.headers.HSTS = <<>>

\* a token sequence without its leading white space
TrimStart(s) == From(s, FirstIn(s, {t \in {s[i] : i \in 1..Len(s)} : t # " "}, 1))

\* the parts of a Set-Cookie value between its semicolons: name=value first,
\* then the attributes
RECURSIVE Attributes(_)
Attributes(s) ==
    LET e == FirstIn(s, {";"}, 1)
    IN  <<TrimStart(Sub(s, 1, e - 1))>>
        \o (IF e > Len(s) THEN <<>> ELSE Attributes(From(s, e + 1)))

IsDomainAttribute(a) == a # <<>> /\ a[1] \in {"Domain=", "domain="}

\* the Domain attribute postMiddleware writes
TargetDomainAttribute == <<"Domain=">> \o env.TARGET_DOMAIN.str

\* postMiddleware has rewritten the headers of the origin's response
HeadersPostProcessed ==
    \/ pc = "headersAfter" /\ Last(hist) = "BodyTransformed"
    \/ Last(hist) \in {"HeadersRewritten", "Emitted"}

\* C12 as stated: in every Set-Cookie value every Domain attribute equals
\* the TARGET_DOMAIN value, and the name, value and other attributes are as
\* the origin sent them.
C12_EveryDomainRewritten ==
    HeadersPostProcessed =>
        /\ Len(res.headers.SetCookie) = Len(origin.headers.SetCookie)
        /\ \A i \in 1..Len(origin.headers.SetCookie) :
              LET a == Attributes(origin.headers.SetCookie[i])
                  b == Attributes(res.headers.SetCookie[i])
              IN  /\ Len(b) = Len(a)
                  /\ \A k \in 1..Len(a) :
                        b[k] = IF IsDomainAttribute(a[k]) THEN TargetDomainAttribute
                               ELSE a[k]

\* C12: in every Set-Cookie value the first Domain attribute equals the
\* TARGET_DOMAIN value, and the name, value and every other attribute, a
\* later Domain attribute included, are as the origin sent them.
C12_FirstDomainRewritten ==
    HeadersPostProcessed =>
        /\ Len(res.headers.SetCookie) = Len(origin.headers.SetCookie)
        /\ \A i \in 1..Len(origin.headers.SetCookie) :
              LET a == Attributes(origin.headers.SetCookie[i])
                  b == Attributes(res.headers.SetCookie[i])
                  first(k) == IsDomainAttribute(a[k])
                              /\ \A j \in 1..(k - 1) : ~IsDomainAttribute(a[j])
              IN  /\ Len(b) = Len(a)
                  /\ \A k \in 1..Len(a) :
                        b[k] = IF first(k) THEN TargetDomainAttribute ELSE a[k]

C12_Witness ==
    /\ HeadersPostProcessed
    /\ Len(origin.headers.SetCookie) = 2
    /\ LET a == Attributes(origin.headers.SetCookie[1])
           c == Attributes(origin.headers.SetCookie[2])
       IN  /\ Len(a) = 3
           /\ IsDomainAttribute(a[2])
           /\ ~IsDomainAttribute(a[3])
           /\ \A k \in 1..Len(c) : ~IsDomainAttribute(c[k])
    /\ res.headers.SetCookie[1] # origin.headers.SetCookie[1]
    /\ res.headers.SetCookie[2] = origin.headers.SetCookie[2]

\* C13: every response of a request that went through headersMiddleware
\* carries X-Robots-Tag: noindex, nofollow, noarchive, nosnippet, whatever
\* the handler returned.
C13_RobotsTag ==
    (pc = "done" /\ Passed)
        => res.headers.XRobotsTag = <<"noindex, nofollow, noarchive, nosnippet">>

C13_Witness ==
    /\ pc = "done"
    /\ Passed
    /\ res.status = 502
    /\ res.headers.XRobotsTag = <<"noindex, nofollow, noarchive, nosnippet">>

\* the host and port an absolute URL string names
AuthorityOf(url) == Sub(url, 3, FirstIn(url, {"/", "?", "#"}, 3) - 1)

RequestAuthority == AuthorityOf(req.url)

\* C14: forwardHeaders is the inbound headers with X-Forwarded-Host set to
\* the request URL's host, X-Forwarded-Proto set to https and
\* Accept-Encoding removed; every other inbound header is carried unchanged.
C14_ForwardHeaders ==
    cvars.forwardHeaders.set =>
        /\ cvars.forwardHeaders.XForwardedHost = RequestAuthority
        /\ cvars.forwardHeaders.XForwardedProto = <<"https">>
        /\ cvars.forwardHeaders.AcceptEncoding = <<>>
        /\ cvars.forwardHeaders.ContentType = req.headers.ContentType
        /\ cvars.forwardHeaders.UserAgent = req.headers.UserAgent

C14_Witness ==
    /\ cvars.forwardHeaders.set
    /\ req.headers.AcceptEncoding = <<"gzip">>
    /\ req.headers.XForwardedHost # RequestAuthority
    /\ Includes(RequestAuthority, <<":", "8787">>)
    /\ cvars.forwardHeaders.XForwardedHost = RequestAuthority
    /\ cvars.forwardHeaders.AcceptEncoding = <<>>

\* C15: forwardHeaders is set before the handler starts, so the handler
\* reads a defined value.
C15_ForwardHeadersBeforeHandler ==
    pc \in {"fetch", "transform"} => cvars.forwardHeaders.set

\* C16: the response of a request that went through headersMiddleware carries
\* a canonical Link header exactly when the response's content type is
\* text/html.
C16_LinkIffResponseHtml ==
    (pc = "done" /\ Passed)
        => (res.headers.Link # <<>> <=> Includes(res.headers.ContentType, <<"text/html">>))

\* the path and query of an absolute URL string
PathAndQueryOf(url) == From(url, FirstIn(url, {"/"}, 3))

RequestPathAndQuery == PathAndQueryOf(req.url)

RelCanonical == <<">", ";", " ", "rel=\"canonical\"">>

C18_ContextURLs ==
    Passed =>
        /\ toString(cvars.requestURL) = req.url
        /\ toString(cvars.targetURL) =
              (IF HasHttpScheme(env.TARGET_DOMAIN.str)
               THEN env.TARGET_DOMAIN.str ELSE HTTPS \o env.TARGET_DOMAIN.str)
              \o RequestPathAndQuery

C18_Witness ==
    /\ Passed
    /\ ~HasHttpScheme(env.TARGET_DOMAIN.str)
    /\ cvars.targetURL.protocol = "https:"
    /\ cvars.targetURL.pathname = <<"/", "p">>
    /\ cvars.targetURL.search = <<"?", "q">>
    /\ cvars.requestURL.port = "8787"

\* the elements of an array binding, from its toString()
RECURSIVE Elements(_)
Elements(s) ==
    LET e == FirstIn(s, {","}, 1)
    IN  {Sub(s, 1, e - 1)} \union (IF e > Len(s) THEN {} ELSE Elements(From(s, e + 1)))

\* C19: with a set of hosts as ALIAS_DOMAIN, a request whose host is a
\* member passes the gate and any other request is answered 403.
C19_AnyMemberPasses ==
    (~env.ALIAS_DOMAIN.isString /\ pc # "pre")
        => IF RequestHostname \in Elements(env.ALIAS_DOMAIN.str)
           THEN Passed
           ELSE res.status = 403

\* the target URL of a request, from the request and the bindings alone
TargetURLOf(q) ==
    (IF HasHttpScheme(env.TARGET_DOMAIN.str)
     THEN env.TARGET_DOMAIN.str ELSE HTTPS \o env.TARGET_DOMAIN.str)
    \o PathAndQueryOf(q.url)

\* the values request r holds are those of its own request and the bindings
OwnValues(r) ==
    LET st == conc[r]
    IN  /\ st.targetURL # NoRef =>
              /\ toString(heap[st.targetURL]) = TargetURLOf(st.req)
              /\ toString(st.requestURL) = st.req.url
        /\ st.fetched # <<>> => st.fetched = TargetURLOf(st.req)
        /\ st.forwardHeaders.set =>
              /\ st.forwardHeaders.XForwardedHost = AuthorityOf(st.req.url)
              /\ st.forwardHeaders.ContentType = st.req.headers.ContentType
              /\ st.forwardHeaders.UserAgent = st.req.headers.UserAgent
        /\ st.res.headers.Link # <<>> =>
              st.res.headers.Link =
                  <<"<">> \o env.TARGET_DOMAIN.str \o PathAndQueryOf(st.req.url)
                  \o RelCanonical
        /\ (st.pc = "done" /\ st.res.status = 200) =>
              /\ st.res.headers.Location =
                    RewriteLocation(st.origin.headers.Location,
                                    WithoutScheme(env.TARGET_DOMAIN.str))
              /\ st.res.headers.SetCookie =
                    RewriteSetCookie(st.origin.headers.SetCookie, env.TARGET_DOMAIN.str)

-----------------------------------------------------------------------------
(* Frame and error properties of the middleware *)

\* a and b are the same hostname up to one leading www.
SameHostIgnoringWww(a, b) == a = b \/ a = WWW \o b \/ WWW \o a = b

\* the Location of the origin's response, resolved as postMiddleware does
ResolvedLocation ==
    IF origin.headers.Location = <<>> THEN NoURL
    ELSE URLResolve(origin.headers.Location, URLParse(HTTPS \o cvars.targetURL.hostname))

\* C21: postMiddleware changes the Location header only when its value
\* resolves to a URL whose hostname is the target hostname up to a leading
\* www.; a value that fails to resolve is left as it was and raises nothing.
C21_LocationFrame ==
    HeadersPostProcessed =>
        /\ res.headers.Location # origin.headers.Location =>
              /\ ResolvedLocation.ok
              /\ SameHostIgnoringWww(ResolvedLocation.hostname, cvars.targetURL.hostname)
        /\ ~ResolvedLocation.ok => res.headers.Location = origin.headers.Location

C21_Witness ==
    /\ HeadersPostProcessed
    /\ origin.headers.Location = HTTPS
    /\ ~ResolvedLocation.ok
    /\ res.headers.Location = HTTPS
    /\ res.status = 200

\* C22: the Content-Security-Policy value after postMiddleware is the value
\* before it, whether or not it contains the TARGET_DOMAIN string.
C22_CSPUnchanged == HeadersPostProcessed => res.headers.CSP = origin.headers.CSP

C22_Witness ==
    /\ HeadersPostProcessed
    /\ Includes(origin.headers.CSP, env.TARGET_DOMAIN.str)
    /\ res.headers.CSP = origin.headers.CSP

C25_CookieFrame ==
    HeadersPostProcessed =>
        /\ Len(res.headers.SetCookie) = Len(origin.headers.SetCookie)
        /\ \A i \in 1..Len(origin.headers.SetCookie) :
              LET a == Attributes(origin.headers.SetCookie[i])
                  b == Attributes(res.headers.SetCookie[i])
              IN  /\ Len(b) = Len(a)
                  /\ b[1] = a[1]
                  /\ Cardinality({k \in 1..Len(a) : b[k] # a[k]}) <= 1
                  /\ \A k \in 1..Len(a) :
                        b[k] # a[k] =>
                            /\ IsDomainAttribute(a[k])
                            /\ \A j \in 1..(k - 1) : ~IsDomainAttribute(a[j])
                  /\ (\A k \in 1..Len(a) : ~IsDomainAttribute(a[k])) =>
                        res.headers.SetCookie[i] = origin.headers.SetCookie[i]

C25_Witness ==
    /\ HeadersPostProcessed
    /\ Len(origin.headers.SetCookie) = 2
    /\ LET a == Attributes(origin.headers.SetCookie[1])
           c == Attributes(origin.headers.SetCookie[2])
       IN  /\ \A k \in 1..Len(a) : ~IsDomainAttribute(a[k])
           /\ Len(c) = 3
           /\ IsDomainAttribute(c[2])
           /\ IsDomainAttribute(c[3])
           /\ Attributes(res.headers.SetCookie[2])[3] = c[3]
    /\ res.headers.SetCookie[1] = origin.headers.SetCookie[1]
    /\ res.headers.SetCookie[2] # origin.headers.SetCookie[2]

\* C26: with a string as ALIAS_DOMAIN, a request passes the host gate
\* exactly when its URL hostname is the hostname of the normalized
\* ALIAS_DOMAIN, whatever its scheme and port and with no www. normalization;
\* any other request is answered 403.
C26_GateComparesHostnames ==
    (pc # "pre" /\ env.ALIAS_DOMAIN.isString) =>
        /\ Passed <=> RequestHostname = WithoutScheme(env.ALIAS_DOMAIN.str)
        /\ ~Passed => (pc = "done" /\ res.status = 403)

C26_Witness ==
    /\ Passed
    /\ env.ALIAS_DOMAIN.str = LocalHost
    /\ StartsWith(req.url, HTTP \o LocalHost \o <<":", "8787">>)

\* C27: headersMiddleware raises nothing for a request that passed
\* preMiddleware, whatever TARGET_DOMAIN preMiddleware accepted.
C27_HeadersMiddlewareNeverThrows ==
    Passed => \A i \in 1..Len(hist) : hist[i] # "InternalError"

\* the origin answered with a status that is not 2xx
NonOkOrigin == fetches > 0 /\ ~origin.threw /\ ~IsOk(origin.status)

\* C28: a response emitted on the happy path has the origin's status, which
\* is 2xx; a request whose origin answered with any other status ends in
\* UpstreamFailed with 502 and never enters HeadersRewritten.
C28_HappyPathStatus ==
    /\ (pc = "done" /\ Last(hist) = "Emitted") =>
          (res.status = origin.status /\ IsOk(res.status))
    /\ NonOkOrigin => \A i \in 1..Len(hist) : hist[i] # "HeadersRewritten"
    /\ (pc = "done" /\ NonOkOrigin) =>
          (Last(hist) = "UpstreamFailed" /\ res.status = 502)

=============================================================================
